---- MODULE Spec2Model ----
(***************************************************************************)
(* Model of src/code.py: the sales-analysis script.  One run of the main   *)
(* program (lines 180-185) is a state machine whose actions are the six    *)
(* calls of the main program; the pandas operations the calls are made of  *)
(* are operators.                                                          *)
(*                                                                         *)
(* Abstractions.  An InvoiceDate cell of the CSV is the tuple              *)
(* <<month, hour>> of the fields of the date string (<<>> for an empty     *)
(* cell); a parsed timestamp is a record [month, hour]; all dates lie in   *)
(* one year.  UnitPrice is an integer number of pence, so sums are exact.  *)
(* Countries are numbered from 1; OtherCountries is the label of the       *)
(* remainder bucket.  The dataframe library is the one the script was      *)
(* written for (Series.append exists, resample('M') is accepted).          *)
(***************************************************************************)
EXTENDS Integers, Sequences, FiniteSets, TLC

\* Bounds of the input tables.
MaxRows == 3
MaxCountries == 6

\* Program constants.
TopN == 5
ExplodeLen == 6
OtherCountries == 0

AllColumns == {"Country", "InvoiceDate", "Quantity", "UnitPrice"}

\* Input domains of the general tables.
CountriesA == {1, 2}
RawDatesA == {<<1, 0>>, <<3, 23>>, <<13, 0>>}
QuantitiesA == {-1, 2}

RowsA ==
    [Country : CountriesA, InvoiceDate : RawDatesA,
     Quantity : QuantitiesA, UnitPrice : {3}]

\* General tables: up to MaxRows rows, two countries, two non-adjacent
\* months, a date that does not parse, negative quantities.
TablesA == UNION {[1..n -> RowsA] : n \in 0..MaxRows}

\* Many-country tables: one row per country, countries 1..n, so that the
\* top-5 cut-off and the remainder bucket are exercised.
TablesB ==
    UNION {{[i \in 1..n |-> [Country |-> i, InvoiceDate |-> <<2, i>>,
                             Quantity |-> q[i], UnitPrice |-> 5]]
            : q \in [1..n -> {1, 2}]} : n \in 3..MaxCountries}

RowsC ==
    [Country : {1}, InvoiceDate : {<<1, 0>>, <<>>, <<2, 24>>},
     Quantity : {-1, 0, 2}, UnitPrice : {7}]

\* One-country tables: an empty date cell, an hour that is no hour of the
\* day, a zero quantity.
TablesC == UNION {[1..n -> RowsC] : n \in 0..MaxRows}

NoFile == [exists |-> FALSE, columns |-> {}, rows |-> <<>>]

\* Files with one expected column missing.  The cells of a missing column
\* are never read: every read of a column is guarded by KeyError.
FilesMissingColumn ==
    {[exists |-> TRUE, columns |-> AllColumns \ {c}, rows |-> t]
     : c \in AllColumns, t \in UNION {[1..n -> RowsA] : n \in 0..1}}

Files ==
    {[exists |-> TRUE, columns |-> AllColumns, rows |-> t]
     : t \in TablesA \cup TablesB \cup TablesC}

VARIABLES csv, pc, data, monthly_sales, total_monthly_sales, sales_by_hour,
          pie_data, files, stages

vars == <<csv, pc, data, monthly_sales, total_monthly_sales, sales_by_hour,
          pie_data, files, stages>>

----------------------------------------------------------------------------
\* Helpers.

Range(s) == {s[i] : i \in 1..Len(s)}

SetMin(S) == CHOOSE x \in S : \A y \in S : x <= y
SetMax(S) == CHOOSE x \in S : \A y \in S : x >= y

RECURSIVE SortedKeys(_)
\* groupby sorts the group keys ascending.
SortedKeys(S) ==
    IF S = {} THEN <<>>
    ELSE <<SetMin(S)>> \o SortedKeys(S \ {SetMin(S)})

RECURSIVE sum(_, _)
\* Series.sum of column col.
sum(rows, col) ==
    IF Len(rows) = 0 THEN 0
    ELSE rows[1][col] + sum(SubSeq(rows, 2, Len(rows)), col)

\* Faulty variant of KeyError: a missing column goes unnoticed.
KeyError_never(columns, used) == FALSE

\* A column lookup raises KeyError when the column is not in the table.
KeyError(columns, used) == ~(used \subseteq columns)

----------------------------------------------------------------------------
\* load_and_preprocess_data

NaT == [month |-> 0, hour |-> 0]

\* pd.to_datetime(..., errors='coerce')
to_datetime(s) ==
    IF Len(s) = 2 /\ s[1] \in 1..12 /\ s[2] \in 0..23
    THEN [month |-> s[1], hour |-> s[2]]
    ELSE NaT

\* Faulty variant of dropna: no row is dropped.
dropna_keeps_all(rows) == rows

\* data.dropna(subset=['InvoiceDate'])
dropna(rows) == SelectSeq(rows, LAMBDA r : r.InvoiceDate # NaT)

\* Faulty variant of TotalSales: the columns are added instead of multiplied.
TotalSales_added(r) == r.Quantity + r.UnitPrice

\* data['Quantity'] * data['UnitPrice']
TotalSales(r) == r.Quantity * r.UnitPrice

load_and_preprocess_data(file) ==
    LET parsed == [i \in 1..Len(file.rows) |->
                     [file.rows[i] EXCEPT !.InvoiceDate = to_datetime(@)]]
        kept == dropna(parsed)
    IN  [columns |-> (file.columns \ {"InvoiceDate"}) \cup {"TotalSales"},
         index |-> "InvoiceDate",
         rows |-> [i \in 1..Len(kept) |->
                     [Country |-> kept[i].Country,
                      InvoiceDate |-> kept[i].InvoiceDate,
                      Quantity |-> kept[i].Quantity,
                      UnitPrice |-> kept[i].UnitPrice,
                      TotalSales |-> TotalSales(kept[i])]]]

----------------------------------------------------------------------------
\* get_monthly_sales

\* Faulty variant of MonthBins: one bin too many at the end of the range.
MonthBins_one_more(months) == SetMin(months)..(SetMax(months) + 1)

\* resample('M') makes one bin per calendar month from the first to the
\* last month of the group, empty months included.
MonthBins(months) == SetMin(months)..SetMax(months)

\* Faulty variant of BinSum: every bin gets the total of the whole group.
BinSum_whole_group(grp, m) == sum(grp, "TotalSales")

\* ['TotalSales'].sum() of one bin (0 for an empty bin).
BinSum(grp, m) ==
    sum(SelectSeq(grp, LAMBDA r : r.InvoiceDate.month = m), "TotalSales")

resample_M(rows, c) ==
    LET grp == SelectSeq(rows, LAMBDA r : r.Country = c)
        bins == SortedKeys(MonthBins({grp[i].InvoiceDate.month
                                      : i \in 1..Len(grp)}))
    IN  [k \in 1..Len(bins) |->
           [Country |-> c, InvoiceDate |-> bins[k],
            TotalSales |-> BinSum(grp, bins[k])]]

RECURSIVE concat_groups(_, _)
concat_groups(rows, keys) ==
    IF Len(keys) = 0 THEN <<>>
    ELSE resample_M(rows, keys[1])
         \o concat_groups(rows, SubSeq(keys, 2, Len(keys)))

get_monthly_sales(d) ==
    concat_groups(d.rows, SortedKeys({d.rows[i].Country
                                      : i \in 1..Len(d.rows)}))

\* monthly_sales.groupby('InvoiceDate')['TotalSales'].sum()
groupby_InvoiceDate_sum(ms) ==
    LET keys == SortedKeys({ms[i].InvoiceDate : i \in 1..Len(ms)})
    IN  [k \in 1..Len(keys) |->
           [InvoiceDate |-> keys[k],
            TotalSales |-> sum(SelectSeq(ms, LAMBDA r :
                                   r.InvoiceDate = keys[k]), "TotalSales")]]

----------------------------------------------------------------------------
\* get_sales_by_hour

\* Faulty variant of assign_Hour: the rows of hour 0 are lost with the assignment.
assign_Hour_dropping(d) ==
    [columns |-> d.columns \cup {"Hour"},
     index |-> d.index,
     rows |-> LET kept == SelectSeq(d.rows,
                              LAMBDA r : r.InvoiceDate.hour # 0)
              IN  [i \in 1..Len(kept) |->
                     [Country |-> kept[i].Country,
                      InvoiceDate |-> kept[i].InvoiceDate,
                      Quantity |-> kept[i].Quantity,
                      UnitPrice |-> kept[i].UnitPrice,
                      TotalSales |-> kept[i].TotalSales,
                      Hour |-> kept[i].InvoiceDate.hour]]]

\* data['Hour'] = data.index.hour : assigns a column of the caller's table.
assign_Hour(d) ==
    [columns |-> d.columns \cup {"Hour"},
     index |-> d.index,
     rows |-> [i \in 1..Len(d.rows) |->
                 [Country |-> d.rows[i].Country,
                  InvoiceDate |-> d.rows[i].InvoiceDate,
                  Quantity |-> d.rows[i].Quantity,
                  UnitPrice |-> d.rows[i].UnitPrice,
                  TotalSales |-> d.rows[i].TotalSales,
                  Hour |-> d.rows[i].InvoiceDate.hour]]]

\* Faulty variant of groupby_Hour_sum: the wrong column is summed.
groupby_Hour_sum_Quantity(d) ==
    LET keys == SortedKeys({d.rows[i].Hour : i \in 1..Len(d.rows)})
    IN  [k \in 1..Len(keys) |->
           [Hour |-> keys[k],
            TotalSales |-> sum(SelectSeq(d.rows, LAMBDA r :
                                   r.Hour = keys[k]), "Quantity")]]

\* data.groupby('Hour')['TotalSales'].sum().reset_index()
groupby_Hour_sum(d) ==
    LET keys == SortedKeys({d.rows[i].Hour : i \in 1..Len(d.rows)})
    IN  [k \in 1..Len(keys) |->
           [Hour |-> keys[k],
            TotalSales |-> sum(SelectSeq(d.rows, LAMBDA r :
                                   r.Hour = keys[k]), "TotalSales")]]

----------------------------------------------------------------------------
\* plot_total_sales_by_country

\* data.groupby('Country')['TotalSales'].sum()
groupby_Country_sum(d) ==
    LET keys == SortedKeys({d.rows[i].Country : i \in 1..Len(d.rows)})
    IN  [k \in 1..Len(keys) |->
           [Country |-> keys[k],
            TotalSales |-> sum(SelectSeq(d.rows, LAMBDA r :
                                   r.Country = keys[k]), "TotalSales")]]

RECURSIVE sort_values(_)
\* sort_values(ascending=False) with the default, unstable sort kind: every
\* descending order of the entries is a possible result, ties in any order.
sort_values(S) ==
    IF S = {} THEN {<<>>}
    ELSE UNION {{<<r>> \o t : t \in sort_values(S \ {r})}
                : r \in {x \in S : \A y \in S :
                                     x.TotalSales >= y.TotalSales}}

\* total_sales_by_country.head(5)
head(s, n) == SubSeq(s, 1, IF Len(s) < n THEN Len(s) ELSE n)

\* Faulty variant of other_countries_sum: the slice starts one entry late.
other_countries_sum_late(s) ==
    sum(SubSeq(s, TopN + 2, Len(s)), "TotalSales")

\* total_sales_by_country[5:].sum()
other_countries_sum(s) == sum(SubSeq(s, TopN + 1, Len(s)), "TotalSales")

\* top_5_countries.append(pd.Series(other_countries_sum, index=[...]))
append(top, other) ==
    top \o <<[Country |-> OtherCountries, TotalSales |-> other]>>

make_pie_data(sorted) == append(head(sorted, TopN), other_countries_sum(sorted))

\* plt.pie raises ValueError on a negative wedge and when explode has not
\* the length of x.
pie_accepts(x) ==
    /\ \A i \in 1..Len(x) : x[i].TotalSales >= 0
    /\ Len(x) = ExplodeLen

----------------------------------------------------------------------------
\* main program

\* Faulty variant of MainProgram: both aggregations run before the first chart.
MainProgram_aggregate_first ==
    <<"load_and_preprocess_data", "get_monthly_sales",
      "get_sales_by_hour", "plot_total_monthly_sales",
      "plot_sales_by_hour", "plot_total_sales_by_country">>

MainProgram ==
    <<"load_and_preprocess_data", "get_monthly_sales",
      "plot_total_monthly_sales", "get_sales_by_hour",
      "plot_sales_by_hour", "plot_total_sales_by_country">>

After(step) ==
    LET i == CHOOSE k \in 1..Len(MainProgram) : MainProgram[k] = step
    IN  IF i = Len(MainProgram) THEN "done" ELSE MainProgram[i + 1]

NoTable == [columns |-> {}, index |-> "", rows |-> <<>>]

Init ==
    /\ csv \in {NoFile} \cup FilesMissingColumn \cup Files
    /\ pc = MainProgram[1]
    /\ data = NoTable
    /\ monthly_sales = <<>>
    /\ total_monthly_sales = <<>>
    /\ sales_by_hour = <<>>
    /\ pie_data = <<>>
    /\ files = {}
    /\ stages = <<>>

\* line 180, read_csv or a column lookup raises
LoadFails ==
    /\ pc = "load_and_preprocess_data"
    /\ \/ ~csv.exists
       \/ KeyError(csv.columns, {"InvoiceDate", "Quantity", "UnitPrice"})
    /\ pc' = "aborted"
    /\ UNCHANGED <<csv, data, monthly_sales, total_monthly_sales,
                   sales_by_hour, pie_data, files, stages>>

\* line 180
Load ==
    /\ pc = "load_and_preprocess_data"
    /\ csv.exists
    /\ ~KeyError(csv.columns, {"InvoiceDate", "Quantity", "UnitPrice"})
    /\ data' = load_and_preprocess_data(csv)
    /\ stages' = Append(stages, "load_and_preprocess_data")
    /\ pc' = After("load_and_preprocess_data")
    /\ UNCHANGED <<csv, monthly_sales, total_monthly_sales, sales_by_hour,
                   pie_data, files>>

\* line 181, groupby('Country') raises; on a table without rows the
\* outcome of the grouped resample depends on the library version, so both
\* an exception and an empty summary are allowed.
GetMonthlySalesFails ==
    /\ pc = "get_monthly_sales"
    /\ \/ KeyError(data.columns, {"Country", "TotalSales"})
       \/ Len(data.rows) = 0
    /\ pc' = "aborted"
    /\ UNCHANGED <<csv, data, monthly_sales, total_monthly_sales,
                   sales_by_hour, pie_data, files, stages>>

\* line 181
GetMonthlySales ==
    /\ pc = "get_monthly_sales"
    /\ ~KeyError(data.columns, {"Country", "TotalSales"})
    /\ monthly_sales' = get_monthly_sales(data)
    /\ stages' = Append(stages, "get_monthly_sales")
    /\ pc' = After("get_monthly_sales")
    /\ UNCHANGED <<csv, data, total_monthly_sales, sales_by_hour, pie_data,
                   files>>

\* line 182
PlotTotalMonthlySales ==
    /\ pc = "plot_total_monthly_sales"
    /\ total_monthly_sales' = groupby_InvoiceDate_sum(monthly_sales)
    /\ files' = files \cup {"total_monthly_sales.png"}
    /\ stages' = Append(stages, "plot_total_monthly_sales")
    /\ pc' = After("plot_total_monthly_sales")
    /\ UNCHANGED <<csv, data, monthly_sales, sales_by_hour, pie_data>>

\* line 183
GetSalesByHour ==
    /\ pc = "get_sales_by_hour"
    /\ data' = assign_Hour(data)
    /\ sales_by_hour' = groupby_Hour_sum(assign_Hour(data))
    /\ stages' = Append(stages, "get_sales_by_hour")
    /\ pc' = After("get_sales_by_hour")
    /\ UNCHANGED <<csv, monthly_sales, total_monthly_sales, pie_data, files>>

\* line 184
PlotSalesByHour ==
    /\ pc = "plot_sales_by_hour"
    /\ files' = files \cup {"sales_by_hour.png"}
    /\ stages' = Append(stages, "plot_sales_by_hour")
    /\ pc' = After("plot_sales_by_hour")
    /\ UNCHANGED <<csv, data, monthly_sales, total_monthly_sales,
                   sales_by_hour, pie_data>>

\* line 185, the pie is drawn and saved
PlotTotalSalesByCountry ==
    /\ pc = "plot_total_sales_by_country"
    /\ \E sorted \in sort_values(Range(groupby_Country_sum(data))) :
         /\ pie_accepts(make_pie_data(sorted))
         /\ pie_data' = make_pie_data(sorted)
    /\ files' = files \cup {"total_sales_by_country.png"}
    /\ stages' = stages \o <<"total_sales_by_country", "pie">>
    /\ pc' = After("plot_total_sales_by_country")
    /\ UNCHANGED <<csv, data, monthly_sales, total_monthly_sales,
                   sales_by_hour>>

\* line 185, plt.pie raises (line 163); a pie whose wedges sum to zero is
\* drawn by some plotting-library versions and raises in others.
PlotTotalSalesByCountryFails ==
    /\ pc = "plot_total_sales_by_country"
    /\ \E sorted \in sort_values(Range(groupby_Country_sum(data))) :
         /\ \/ ~pie_accepts(make_pie_data(sorted))
            \/ sum(make_pie_data(sorted), "TotalSales") = 0
         /\ pie_data' = make_pie_data(sorted)
    /\ stages' = Append(stages, "total_sales_by_country")
    /\ pc' = "aborted"
    /\ UNCHANGED <<csv, data, monthly_sales, total_monthly_sales,
                   sales_by_hour, files>>

Next ==
    \/ LoadFails
    \/ Load
    \/ GetMonthlySalesFails
    \/ GetMonthlySales
    \/ PlotTotalMonthlySales
    \/ GetSalesByHour
    \/ PlotSalesByHour
    \/ PlotTotalSalesByCountry
    \/ PlotTotalSalesByCountryFails

Spec == Init /\ [][Next]_vars

----------------------------------------------------------------------------
\* Properties.

Done(stage) == \E i \in 1..Len(stages) : stages[i] = stage

\* A date string names a timestamp: a month of the year and an hour of the day.
ValidDate(s) == Len(s) = 2 /\ s[1] \in 1..12 /\ s[2] \in 0..23

ParseableIdx ==
    {i \in 1..Len(csv.rows) : ValidDate(csv.rows[i].InvoiceDate)}

\* The index in the CSV of the k-th row whose date parses.
KthParseable(k) ==
    CHOOSE i \in ParseableIdx : Cardinality({j \in ParseableIdx : j <= i}) = k

TableTotal == sum(data.rows, "TotalSales")

CountriesOf(rows) == {rows[i].Country : i \in 1..Len(rows)}

MonthsOf(rows) == {rows[i].InvoiceDate.month : i \in 1..Len(rows)}

CountryTotal(c) ==
    sum(SelectSeq(data.rows, LAMBDA r : r.Country = c), "TotalSales")

\* C1: the cleaned table is exactly the rows of the input whose InvoiceDate
\* parses, in input order, none dropped, duplicated or reordered, and every
\* row whose InvoiceDate does not parse (or is absent) is excluded.
C1_OnlyUnparseableDropped ==
    Done("load_and_preprocess_data") =>
        /\ Len(data.rows) = Cardinality(ParseableIdx)
        /\ \A k \in 1..Len(data.rows) :
             LET r == csv.rows[KthParseable(k)]
             IN  /\ data.rows[k].Country = r.Country
                 /\ data.rows[k].Quantity = r.Quantity
                 /\ data.rows[k].UnitPrice = r.UnitPrice
                 /\ data.rows[k].InvoiceDate =
                        [month |-> r.InvoiceDate[1], hour |-> r.InvoiceDate[2]]

\* C1 witness: a three-row input whose middle row has a date that does not
\* parse has been cleaned to its first and last rows, which differ.
C1_Witness ==
    /\ Done("load_and_preprocess_data")
    /\ Len(csv.rows) = 3
    /\ ParseableIdx = {1, 3}
    /\ csv.rows[1].Country # csv.rows[3].Country
    /\ Len(data.rows) = 2

\* C2: the buckets of the country summary sum to the total TotalSales of
\* the table; the last bucket is "Other Countries" and equals that total
\* minus the sum of the top buckets; the top buckets are totals of distinct
\* countries, none smaller than the total of a country left out.
C2_BucketsSumToTotal ==
    Done("total_sales_by_country") =>
        LET n == Len(pie_data)
            top == SubSeq(pie_data, 1, n - 1)
        IN  /\ n >= 1
            /\ sum(pie_data, "TotalSales") = TableTotal
            /\ pie_data[n].Country = OtherCountries
            /\ pie_data[n].TotalSales = TableTotal - sum(top, "TotalSales")
            /\ \A i \in 1..(n - 1) :
                 /\ top[i].Country \in CountriesOf(data.rows)
                 /\ top[i].TotalSales = CountryTotal(top[i].Country)
                 /\ \A j \in 1..(n - 1) :
                      top[i].Country = top[j].Country => i = j
                 /\ \A c \in CountriesOf(data.rows) \ CountriesOf(top) :
                      CountryTotal(c) <= top[i].TotalSales

\* C2 witness: a finished run over more than five countries, with a
\* remainder bucket that is not empty.
C2_Witness ==
    /\ pc = "done"
    /\ Cardinality(CountriesOf(data.rows)) > TopN
    /\ Len(pie_data) = TopN + 1
    /\ pie_data[TopN + 1].TotalSales > 0

\* C3 (as claimed): for every cleaned table the country summary has exactly
\* top-5 plus one = 6 buckets, as many as the explode tuple, and the pie
\* stage completes.
C3_ExactlySixBuckets ==
    Done("total_sales_by_country") =>
        /\ Len(pie_data) = TopN + 1
        /\ Len(pie_data) = ExplodeLen
        /\ pc = "done"

\* C4 (as claimed): the monthly summary has at most (distinct countries) x
\* (distinct months in which some transaction is present) rows.
C4_RowsAtMostCountriesTimesMonthsPresent ==
    Done("get_monthly_sales") =>
        Len(monthly_sales) <=
            Cardinality(CountriesOf(data.rows))
                * Cardinality(MonthsOf(data.rows))

\* The number of calendar months from the earliest to the latest month in
\* which some transaction is present, both included.
MonthSpan(rows) ==
    IF Len(rows) = 0 THEN 0
    ELSE SetMax(MonthsOf(rows)) - SetMin(MonthsOf(rows)) + 1

\* C4 (amended): the monthly summary has at most (distinct countries) x
\* (calendar months from the earliest to the latest month present) rows.
C4_RowsAtMostCountriesTimesMonthSpan ==
    Done("get_monthly_sales") =>
        Len(monthly_sales) <=
            Cardinality(CountriesOf(data.rows)) * MonthSpan(data.rows)

\* C4 witness: a country has transactions in two non-adjacent months, no
\* country has one in between, and the summary has a row for the gap.
C4_Witness ==
    /\ Done("get_monthly_sales")
    /\ MonthsOf(data.rows) = {1, 3}
    /\ \E i \in 1..Len(monthly_sales) : monthly_sales[i].InvoiceDate = 2
    /\ Len(monthly_sales) >
           Cardinality(CountriesOf(data.rows))
               * Cardinality(MonthsOf(data.rows))

\* C5: the hourly summary has one row per distinct hour of day occurring in
\* the table, at most 24 rows, each Hour in 0..23, and its totals sum to the
\* total TotalSales of the table.
C5_HourlySummary ==
    Done("get_sales_by_hour") =>
        LET hours == {data.rows[i].InvoiceDate.hour : i \in 1..Len(data.rows)}
        IN  /\ Len(sales_by_hour) <= 24
            /\ Len(sales_by_hour) = Cardinality(hours)
            /\ {sales_by_hour[i].Hour : i \in 1..Len(sales_by_hour)} = hours
            /\ \A i \in 1..Len(sales_by_hour) : sales_by_hour[i].Hour \in 0..23
            /\ sum(sales_by_hour, "TotalSales") = TableTotal

\* C5 witness: two hours occur, one of them in more than one row, and the
\* total is not zero.
C5_Witness ==
    /\ Done("get_sales_by_hour")
    /\ Len(sales_by_hour) = 2
    /\ Len(data.rows) = 3
    /\ TableTotal # 0

\* C6: every row of the monthly summary is the sum of TotalSales of its
\* country's transactions in its month, no (Country, Month) has two rows,
\* every (Country, Month) with a transaction has a row, and the summary
\* sums to the total TotalSales of the table, as do the hourly summary and
\* the plotted monthly totals.
C6_MonthlySummary ==
    Done("get_monthly_sales") =>
        /\ \A i \in 1..Len(monthly_sales) :
             /\ monthly_sales[i].TotalSales =
                    sum(SelectSeq(data.rows, LAMBDA r :
                            /\ r.Country = monthly_sales[i].Country
                            /\ r.InvoiceDate.month
                                   = monthly_sales[i].InvoiceDate),
                        "TotalSales")
             /\ \A j \in 1..Len(monthly_sales) :
                  (/\ monthly_sales[i].Country = monthly_sales[j].Country
                   /\ monthly_sales[i].InvoiceDate
                          = monthly_sales[j].InvoiceDate) => i = j
        /\ \A k \in 1..Len(data.rows) :
             \E i \in 1..Len(monthly_sales) :
                 /\ monthly_sales[i].Country = data.rows[k].Country
                 /\ monthly_sales[i].InvoiceDate
                        = data.rows[k].InvoiceDate.month
        /\ sum(monthly_sales, "TotalSales") = TableTotal
        /\ Done("plot_total_monthly_sales") =>
               sum(total_monthly_sales, "TotalSales") = TableTotal
        /\ Done("get_sales_by_hour") =>
               sum(sales_by_hour, "TotalSales")
                   = sum(monthly_sales, "TotalSales")

\* C6 witness: both summaries are computed, a country has transactions in
\* two months, and the total is not zero.
C6_Witness ==
    /\ Done("get_sales_by_hour")
    /\ \E i, j \in 1..Len(data.rows) :
         /\ data.rows[i].Country = data.rows[j].Country
         /\ data.rows[i].InvoiceDate.month # data.rows[j].InvoiceDate.month
         /\ data.rows[i].TotalSales # 0
         /\ data.rows[j].TotalSales # 0
    /\ TableTotal # 0

\* C7: every row of the cleaned table has a TotalSales, equal to its
\* Quantity times its UnitPrice, the Quantity and UnitPrice of its input row.
C7_TotalSalesIsProduct ==
    Done("load_and_preprocess_data") =>
        /\ "TotalSales" \in data.columns
        /\ Len(data.rows) = Cardinality(ParseableIdx)
        /\ \A k \in 1..Len(data.rows) :
             /\ "TotalSales" \in DOMAIN data.rows[k]
             /\ data.rows[k].TotalSales
                    = csv.rows[KthParseable(k)].Quantity
                          * csv.rows[KthParseable(k)].UnitPrice
             /\ data.rows[k].TotalSales
                    = data.rows[k].Quantity * data.rows[k].UnitPrice

\* C7 witness: the cleaned table has a row of negative, one of zero and one
\* of positive quantity.
C7_Witness ==
    /\ Done("load_and_preprocess_data")
    /\ \E i, j, k \in 1..Len(data.rows) :
         /\ data.rows[i].Quantity < 0 /\ data.rows[i].TotalSales < 0
         /\ data.rows[j].Quantity = 0 /\ data.rows[j].TotalSales = 0
         /\ data.rows[k].Quantity > 0 /\ data.rows[k].TotalSales > 0

\* data.csv is missing, or one of the expected columns is.
InputError == ~csv.exists \/ ~(AllColumns \subseteq csv.columns)

\* C8: on an unrecoverable input error no PNG is ever written, and the run
\* gets no further than the call that raises, where it aborts.
C8_NoPartialOutput ==
    InputError =>
        /\ files = {}
        /\ pc \in {"load_and_preprocess_data", "get_monthly_sales", "aborted"}

\* C8 witness: the Country column is missing; the table was loaded and
\* preprocessed, and the run has aborted in get_monthly_sales.
C8_Witness ==
    /\ csv.exists
    /\ "Country" \notin csv.columns
    /\ Done("load_and_preprocess_data")
    /\ Len(data.rows) > 0
    /\ pc = "aborted"

\* C9 (as claimed): the table seen by every later stage is the one
\* load_and_preprocess_data returned: same rows, same columns, same values.
C9_TableUnchanged ==
    Done("load_and_preprocess_data") =>
        data = load_and_preprocess_data(csv)

\* C9 (amended): get_monthly_sales and the country aggregation leave the
\* table unchanged; get_sales_by_hour adds the column Hour, the hour of each
\* row's InvoiceDate, and leaves the rows, their order and every other
\* column unchanged.
C9_OnlyHourAdded ==
    Done("load_and_preprocess_data") =>
        LET clean == load_and_preprocess_data(csv)
            added == IF Done("get_sales_by_hour") THEN {"Hour"} ELSE {}
        IN  /\ data.columns = clean.columns \cup added
            /\ data.index = clean.index
            /\ Len(data.rows) = Len(clean.rows)
            /\ \A i \in 1..Len(data.rows) :
                 /\ DOMAIN data.rows[i] = DOMAIN clean.rows[i] \cup added
                 /\ \A c \in clean.columns \cup {clean.index} :
                      data.rows[i][c] = clean.rows[i][c]
                 /\ Done("get_sales_by_hour") =>
                      data.rows[i].Hour = clean.rows[i].InvoiceDate.hour

\* C9 witness: the country aggregation has run on a table of several rows,
\* one of them of hour 0, that carries the Hour column.
C9_Witness ==
    /\ Done("total_sales_by_country")
    /\ "Hour" \in data.columns
    /\ Len(data.rows) >= 2
    /\ \E i \in 1..Len(data.rows) : data.rows[i].Hour = 0

IsAggregation(stage) ==
    stage \in {"get_monthly_sales", "get_sales_by_hour",
               "total_sales_by_country"}

IsRendering(stage) ==
    stage \in {"plot_total_monthly_sales", "plot_sales_by_hour", "pie"}

\* C10 (as claimed): every aggregation has completed before any chart is
\* rendered or any PNG is written; no aggregation follows a rendering.
C10_AggregationBeforeRendering ==
    /\ \A i, j \in 1..Len(stages) :
         (IsRendering(stages[i]) /\ IsAggregation(stages[j])) => j < i
    /\ files # {} => \A s \in {"get_monthly_sales", "get_sales_by_hour",
                               "total_sales_by_country"} : Done(s)

StageOrder ==
    <<"load_and_preprocess_data", "get_monthly_sales",
      "plot_total_monthly_sales", "get_sales_by_hour", "plot_sales_by_hour",
      "total_sales_by_country", "pie">>

PngOf(stage) ==
    IF stage = "plot_total_monthly_sales" THEN {"total_monthly_sales.png"}
    ELSE IF stage = "plot_sales_by_hour" THEN {"sales_by_hour.png"}
    ELSE IF stage = "pie" THEN {"total_sales_by_country.png"}
    ELSE {}

\* C10 (amended): the stages run one after another, each at most once and
\* all of them in a run that completes, in the order load and preprocess,
\* monthly aggregation, monthly chart, hourly aggregation, hourly chart,
\* country aggregation, pie chart; the PNGs written are those of the charts
\* rendered so far.
C10_FixedInterleavedOrder ==
    /\ Len(stages) <= Len(StageOrder)
    /\ stages = SubSeq(StageOrder, 1, Len(stages))
    /\ files = UNION {PngOf(stages[i]) : i \in 1..Len(stages)}
    /\ pc = "done" => stages = StageOrder

\* C10 witness: a run has completed, all seven stages in order, and the
\* three PNGs are written.
C10_Witness ==
    /\ pc = "done"
    /\ Len(stages) = 7
    /\ Cardinality(files) = 3

====
